---------------------------- MODULE Spec2Model ----------------------------
(***************************************************************************)
(* Satellite emissions inference and attribution engine (gasCV).           *)
(*                                                                         *)
(* The model covers src/src/spatial_matcher.py (FacilityMatcher),          *)
(* src/src/underreporting_analyzer.py (UnderreportingAnalyzer),            *)
(* src/src/processing/detect_plumes.py (PlumeDetector) and the portfolio   *)
(* summary of src/src/esg_report_generator.py (ESGReportGenerator).        *)
(*                                                                         *)
(* Numbers.  Python floats are modelled as exact fractions [n, d] kept in  *)
(* lowest terms (d > 0), extended with the IEEE-754 special values:        *)
(*   [n |-> 1, d |-> 0] is +inf, [n |-> -1, d |-> 0] is -inf and           *)
(*   [n |-> 0, d |-> 0] is NaN.                                            *)
(* A result whose magnitude exceeds FloatMax overflows to +-inf, as a      *)
(* binary64 operation does above 1.8e308; FloatMax is that largest finite  *)
(* value scaled down to the range the model checker can enumerate.         *)
(* Rounding below that magnitude is not modelled.                          *)
(*                                                                         *)
(* Coordinates.  lon/lat are integers in grid units of 1/UnitsPerDeg of a  *)
(* degree.  A distance is carried as the square of the Euclidean distance  *)
(* in grid units (dist2); distance_km = sqrt(dist2) / UnitsPerDeg * 111,   *)
(* and every comparison the code makes on distance_km is made on squares.  *)
(*                                                                         *)
(* Strings that the code inspects (facility_type) are sequences of         *)
(* characters, so that lower() and the substring tests are computed.       *)
(***************************************************************************)
EXTENDS Integers, Sequences, FiniteSets, TLC

VARIABLES
    facilities,            \* FacilityMatcher.facilities_df / facilities_gdf rows
    spatial_index,         \* FacilityMatcher.spatial_index (the cKDTree)
    frequency_assumption,  \* the frequency_assumption argument of the session
    results,               \* UnderreportingAnalyzer.results
    call,                  \* the last operation called, with its arguments
    ret                    \* what that operation returned

vars == <<facilities, spatial_index, frequency_assumption, results, call, ret>>

---------------------------------------------------------------------------
(* Bounds of the model *)

\* largest finite float of the scaled-down number range
FloatMax == 10000000
\* grid units per degree of longitude/latitude
UnitsPerDeg == 1110
\* longest batch (DataFrame) handed to a batch operation
MaxBatch == 2
\* most entries self.results is allowed to grow to
MaxResults == 2
\* most entries of a portfolio handed to generate_portfolio_summary
MaxPortfolio == 10

---------------------------------------------------------------------------
(* Floats *)

Abs(x) == IF x < 0 THEN 0 - x ELSE x

Sgn(x) == IF x < 0 THEN 0 - 1 ELSE IF x > 0 THEN 1 ELSE 0

RECURSIVE GCD(_, _)
GCD(a, b) == IF b = 0 THEN a ELSE GCD(b, a % b)

NaN == [n |-> 0, d |-> 0]
PosInf == [n |-> 1, d |-> 0]
NegInf == [n |-> 0 - 1, d |-> 0]

IsNaN(a) == a.d = 0 /\ a.n = 0
IsInf(a) == a.d = 0 /\ a.n # 0
IsFinite(a) == a.d > 0

\* the fraction n/d (d > 0) in lowest terms
Frac(n, d) == LET g == GCD(Abs(n), d) IN [n |-> n \div g, d |-> d \div g]

\* an integer as a float
Flt(i) == [n |-> i, d |-> 1]

\* the float an arithmetic operation with exact result n/d (d > 0) returns
FloatOf(n, d) ==
    LET q == Abs(n) \div d
        r == Abs(n) % d
    IN IF q > FloatMax \/ (q = FloatMax /\ r # 0)
       THEN [n |-> Sgn(n), d |-> 0]
       ELSE Frac(n, d)

\* a * b; common factors are cancelled before the products are formed
FMul(a, b) ==
    IF IsNaN(a) \/ IsNaN(b) THEN NaN
    ELSE IF IsInf(a) \/ IsInf(b)
         THEN [n |-> Sgn(a.n) * Sgn(b.n), d |-> 0]
         ELSE LET g1 == GCD(Abs(a.n), b.d)
                  g2 == GCD(Abs(b.n), a.d)
              IN FloatOf((a.n \div g1) * (b.n \div g2), (a.d \div g2) * (b.d \div g1))

\* a / b for b # 0 (Python raises ZeroDivisionError for b = 0: see the callers)
FDiv(a, b) ==
    IF IsNaN(a) \/ IsNaN(b) THEN NaN
    ELSE IF IsInf(b) THEN (IF IsInf(a) THEN NaN ELSE Flt(0))
    ELSE IF IsInf(a) THEN [n |-> Sgn(a.n) * Sgn(b.n), d |-> 0]
    ELSE FMul(a, [n |-> Sgn(b.n) * b.d, d |-> Abs(b.n)])

\* a - b, over the least common denominator
FSub(a, b) ==
    IF IsNaN(a) \/ IsNaN(b) THEN NaN
    ELSE IF IsInf(a) THEN (IF IsInf(b) /\ a.n = b.n THEN NaN ELSE a)
    ELSE IF IsInf(b) THEN [n |-> 0 - b.n, d |-> 0]
    ELSE LET g == GCD(a.d, b.d)
         IN FloatOf(a.n * (b.d \div g) - b.n * (a.d \div g), (a.d \div g) * b.d)

\* a + b
FAdd(a, b) == FSub(a, [n |-> 0 - b.n, d |-> b.d])

Rank(a) == IF a.d > 0 THEN 0 ELSE a.n

\* a < b, a <= b, a >= b, a == b: every comparison with NaN is False
FLt(a, b) ==
    /\ ~IsNaN(a)
    /\ ~IsNaN(b)
    /\ IF a.d > 0 /\ b.d > 0 THEN a.n * b.d < b.n * a.d ELSE Rank(a) < Rank(b)

FLe(a, b) ==
    /\ ~IsNaN(a)
    /\ ~IsNaN(b)
    /\ IF a.d > 0 /\ b.d > 0 THEN a.n * b.d <= b.n * a.d ELSE Rank(a) <= Rank(b)

FGe(a, b) == FLe(b, a)

FEq(a, b) == FLe(a, b) /\ FLe(b, a)

\* min(a, b) of Python: b if b < a else a
FMin(a, b) == IF FLt(b, a) THEN b ELSE a

---------------------------------------------------------------------------
(* Strings *)

UpperChars == <<"A", "B", "C", "D", "E", "F", "G", "H", "I", "J", "K", "L", "M",
                "N", "O", "P", "Q", "R", "S", "T", "U", "V", "W", "X", "Y", "Z">>
LowerChars == <<"a", "b", "c", "d", "e", "f", "g", "h", "i", "j", "k", "l", "m",
                "n", "o", "p", "q", "r", "s", "t", "u", "v", "w", "x", "y", "z">>

LowerChar(c) ==
    IF \E i \in 1..Len(UpperChars) : UpperChars[i] = c
    THEN LowerChars[CHOOSE i \in 1..Len(UpperChars) : UpperChars[i] = c]
    ELSE c

\* str.lower()
Lower(s) == [i \in 1..Len(s) |-> LowerChar(s[i])]

\* sub in s
Contains(sub, s) ==
    \E i \in 1..(Len(s) - Len(sub) + 1) : SubSeq(s, i, i + Len(sub) - 1) = sub

\* any(x in s for x in keywords)
AnyIn(keywords, s) == \E k \in keywords : Contains(k, s)

KwOil == <<"o", "i", "l">>
KwGas == <<"g", "a", "s">>
KwExtraction == <<"e", "x", "t", "r", "a", "c", "t", "i", "o", "n">>
KwPipeline == <<"p", "i", "p", "e", "l", "i", "n", "e">>
KwRefinery == <<"r", "e", "f", "i", "n", "e", "r", "y">>
KwProcessing == <<"p", "r", "o", "c", "e", "s", "s", "i", "n", "g">>
KwLng == <<"l", "n", "g">>
KwTerminal == <<"t", "e", "r", "m", "i", "n", "a", "l">>

---------------------------------------------------------------------------
(* Python values *)

\* A dict (and a DataFrame row) is a record: its keys are the record's fields.

\* the value None
PyNone == [none |-> TRUE]

\* d.get(key, default)
Get(d, key, default) == IF key \in DOMAIN d THEN d[key] ELSE default

\* what an operation returns: None, a dict, a DataFrame (its rows) or an exception
RetNone == [kind |-> "None"]
RetDict(v) == [kind |-> "dict", v |-> v]
RetFrame(rows) == [kind |-> "frame", rows |-> rows]
RetRaise(exc) == [kind |-> "raise", exc |-> exc]

---------------------------------------------------------------------------
(* The facility catalogs and the detections the model draws its inputs from *)

TypeOilExtraction == <<"O", "i", "l", " ", "E", "x", "t", "r", "a", "c", "t", "i", "o", "n">>
TypeRefinery == <<"R", "e", "f", "i", "n", "e", "r", "y">>
TypeOffshorePlatform == <<"O", "f", "f", "s", "h", "o", "r", "e", " ",
                          "P", "l", "a", "t", "f", "o", "r", "m">>
TypeLngTerminal == <<"L", "N", "G", " ", "T", "e", "r", "m", "i", "n", "a", "l">>
TypeOilRefinery == <<"O", "i", "l", " ", "R", "e", "f", "i", "n", "e", "r", "y">>
TypeGasProcessing == <<"G", "a", "s", " ", "P", "r", "o", "c", "e", "s", "s", "i", "n", "g">>

Facility(id, name, type, lon, lat, tons) ==
    [facility_id |-> id, facility_name |-> name, facility_type |-> type,
     lon |-> lon, lat |-> lat, reported_emissions_tons_year |-> tons]

F1 == Facility(1, "Mangala Oil Field", TypeOilExtraction, 0, 0, Frac(18, 5))
F2 == Facility(2, "Jamnagar Refinery", TypeRefinery, 60, 0, Flt(0))
F3 == Facility(3, "Mumbai High Offshore", TypeOffshorePlatform, 0, 60, Flt(15))
F4 == Facility(4, "Hazira LNG Terminal", TypeLngTerminal, 0, 0 - 120, Frac(9, 10))
F5 == Facility(6, "Digboi Oil Field", TypeOilRefinery, 30, 0, Frac(12, 5))
F6 == Facility(8, "Dahej LNG Terminal", TypeGasProcessing, 50, 10, Frac(7, 10))

Catalogs == {<<F1>>, <<F1, F2>>, <<F1, F2, F3, F4>>}

\* a catalog of processing and terminal facilities
ProcessingCatalog == <<F5, F4, F6>>

\* a catalog of more facilities than one leaf of the spatial index holds: F1, F3
\* and F6, six wells north of them and seven south of F4, and F4 last.  The
\* latitudes all differ and span more than the longitudes.
Well(k, lon, lat) == Facility(10 + k, "Barmer Well", TypeOilExtraction, lon, lat, Flt(1))

NorthLats == <<20, 30, 40, 50, 70, 80>>

LargeCatalog ==
    <<F1, F3, F6>>
    \o [k \in 1..6 |-> Well(k, 90 + k, NorthLats[k])]
    \o [k \in 1..7 |-> Well(6 + k, 90 + k, 0 - (120 + 10 * k))]
    \o <<F4>>

Plume(lon, lat, date, enh, area) ==
    [lon |-> lon, lat |-> lat, date |-> date, ch4_enhancement_ppm_m |-> enh,
     plume_area_km2 |-> area]

\* on F1; exactly 5.0 km from F1 and 1.0 km from F2; 3.0 km from F1 and from F2;
\* 6.0 km from F1 and from F4; 9.0 km from F3 and more than 10 km from every
\* other facility; on F1 again, without a retrieved enhancement (emit_fetcher.py
\* stores None for it).
\* Against F1 (3600 kg reported) the enhancements 1250, 6250/3 and 12500/3 give
\* monthly ratios of exactly 3, 5 and 10.  The last field is the measured
\* extent in km2, None when the reprojection of the geometry failed.
Plumes ==
    {Plume(0, 0, "2024-06-15", Flt(1250), Flt(2)),
     Plume(50, 0, "2024-07-03", Frac(6250, 3), PyNone),
     Plume(30, 0, "2024-05-22", Flt(0 - 100), Frac(1, 2)),
     Plume(0, 0 - 60, "2024-05-23", Frac(12500, 3), PyNone),
     Plume(0, 150, "2024-05-24", Flt(620), Flt(3)),
     Plume(0, 0, "2024-06-16", PyNone, PyNone)}

MaxDistances == {Flt(5), Flt(10)}

\* (lon_min, lat_min, lon_max, lat_max): a box with F1, F5, F6 inside and F2 on
\* its edge, and a box without facilities
RegionBoxes == {<<0 - 10, 0 - 10, 60, 10>>, <<200, 200, 300, 300>>}

\* the sequences of different elements of S, of length at most n
RECURSIVE SeqsUpTo(_, _)
SeqsUpTo(S, n) ==
    IF n = 0 THEN {<<>>}
    ELSE LET shorter == SeqsUpTo(S, n - 1)
         IN shorter \cup
            UNION {{Append(s, x) : x \in S \ {s[i] : i \in 1..Len(s)}} :
                      s \in {t \in shorter : Len(t) = n - 1}}

---------------------------------------------------------------------------
(* FacilityMatcher *)

KmPerDeg == 111

\* squared Euclidean distance in grid units between (lon, lat) and facility f
Dist2(lon, lat, f) == (f.lon - lon) * (f.lon - lon) + (f.lat - lat) * (f.lat - lat)

\* distance_km <= m and distance_km < m, where
\* distance_km = sqrt(dist2) / UnitsPerDeg * KmPerDeg (never negative, never NaN)
DistKmLe(dist2, m) ==
    /\ ~IsNaN(m)
    /\ \/ m = PosInf
       \/ /\ IsFinite(m)
          /\ m.n >= 0
          /\ dist2 * KmPerDeg * KmPerDeg * m.d * m.d <= m.n * m.n * UnitsPerDeg * UnitsPerDeg

DistKmLt(dist2, m) ==
    /\ ~IsNaN(m)
    /\ \/ m = PosInf
       \/ /\ IsFinite(m)
          /\ m.n > 0
          /\ dist2 * KmPerDeg * KmPerDeg * m.d * m.d < m.n * m.n * UnitsPerDeg * UnitsPerDeg

\* cKDTree(self.facility_coords) is built with the default leafsize
LeafSize == 16

\* self.facility_coords = np.column_stack([lon, lat]): dimension 0 is the
\* longitude, dimension 1 the latitude
Coord(f, dim) == IF dim = 0 THEN f.lon ELSE f.lat

Coords(cat, dim) == {Coord(cat[i], dim) : i \in 1..Len(cat)}

Spread(cat, dim) ==
    LET c == Coords(cat, dim)
    IN (CHOOSE hi \in c : \A x \in c : x <= hi) - (CHOOSE lo \in c : \A x \in c : lo <= x)

\* the node is split along the first dimension of largest extent
SplitDim(cat) == IF Spread(cat, 0) >= Spread(cat, 1) THEN 0 ELSE 1

\* the coordinate of the point at position n/2 of the points ordered along dim
SplitValue(cat, dim) ==
    CHOOSE v \in Coords(cat, dim) :
        /\ Cardinality({i \in 1..Len(cat) : Coord(cat[i], dim) < v}) <= Len(cat) \div 2
        /\ Cardinality({i \in 1..Len(cat) : Coord(cat[i], dim) <= v}) > Len(cat) \div 2

\* cKDTree(self.facility_coords): at most LeafSize points make one leaf, which
\* lists the catalog positions in catalog order (indices[1..p]).  A larger
\* catalog is split at the median of its widest dimension into the leaf of the
\* points below the split (indices[1..p]) and the leaf of the others
\* (indices[p+1..]); catalogs hold at most 2 * LeafSize facilities with
\* different coordinates along that dimension, so both halves are leaves.
BuildIndex(cat) ==
    LET positions == [i \in 1..Len(cat) |-> i]
    IN IF Len(cat) <= LeafSize
       THEN [split_dim |-> 0 - 1, split |-> 0, p |-> Len(cat), indices |-> positions]
       ELSE LET dim == SplitDim(cat)
                v == SplitValue(cat, dim)
                Below(i) == Coord(cat[i], dim) < v
                NotBelow(i) == ~Below(i)
                less == SelectSeq(positions, Below)
            IN [split_dim |-> dim, split |-> v, p |-> Len(less),
                indices |-> less \o SelectSeq(positions, NotBelow)]

\* the scan of one leaf, indices[i..last]: a point replaces the best one so far
\* only when it is strictly closer (d < distance_upper_bound)
RECURSIVE ScanLeaf(_, _, _, _, _, _, _)
ScanLeaf(cat, indices, lon, lat, i, last, best) ==
    IF i > last THEN best
    ELSE LET here == Dist2(lon, lat, cat[indices[i]])
         IN IF best = 0 \/ here < Dist2(lon, lat, cat[best])
            THEN ScanLeaf(cat, indices, lon, lat, i + 1, last, indices[i])
            ELSE ScanLeaf(cat, indices, lon, lat, i + 1, last, best)

\* variant: a query that answers the first point of the index
QueryFirst(cat, index, lon, lat) == index.indices[1]

\* self.spatial_index.query(plume_coords): the leaf on the query point's side of
\* the split is scanned first, then the other one (a leaf that is skipped as
\* too far holds no closer point, so the answer is the one of scanning it)
Query(cat, index, lon, lat) ==
    LET n == Len(index.indices)
    IN IF index.split_dim = 0 - 1
       THEN ScanLeaf(cat, index.indices, lon, lat, 1, n, 0)
       ELSE IF (IF index.split_dim = 0 THEN lon ELSE lat) < index.split
       THEN ScanLeaf(cat, index.indices, lon, lat, index.p + 1, n,
                     ScanLeaf(cat, index.indices, lon, lat, 1, index.p, 0))
       ELSE ScanLeaf(cat, index.indices, lon, lat, 1, index.p,
                     ScanLeaf(cat, index.indices, lon, lat, index.p + 1, n, 0))

\* variant: distance tiers that include their upper bound
DistanceFactorInclusive(dist2) ==
    IF DistKmLe(dist2, Flt(1)) THEN Flt(1)
    ELSE IF DistKmLe(dist2, Flt(3)) THEN Frac(8, 10)
    ELSE IF DistKmLe(dist2, Flt(5)) THEN Frac(6, 10)
    ELSE Frac(3, 10)

\* _calculate_confidence: the distance penalty
DistanceFactor(dist2) ==
    IF DistKmLt(dist2, Flt(1)) THEN Flt(1)
    ELSE IF DistKmLt(dist2, Flt(3)) THEN Frac(8, 10)
    ELSE IF DistKmLt(dist2, Flt(5)) THEN Frac(6, 10)
    ELSE Frac(3, 10)

\* _calculate_confidence: the facility type match
TypeFactor(type) ==
    LET facility_type == Lower(type)
    IN IF AnyIn({KwOil, KwGas, KwExtraction, KwPipeline}, facility_type) THEN Flt(1)
       ELSE IF AnyIn({KwRefinery, KwProcessing}, facility_type) THEN Frac(9, 10)
       ELSE IF AnyIn({KwLng, KwTerminal}, facility_type) THEN Frac(85, 100)
       ELSE Frac(7, 10)

\* variant: the confidence on a percent scale
calculate_confidence_percent(dist2, facility) ==
    LET c1 == FMul(Flt(100), DistanceFactor(dist2))
        c2 == FMul(c1, TypeFactor(Get(facility, "facility_type", <<>>)))
    IN FMin(c2, Flt(100))

calculate_confidence(dist2, facility) ==
    LET c1 == FMul(Flt(1), DistanceFactor(dist2))
        c2 == FMul(c1, TypeFactor(Get(facility, "facility_type", <<>>)))
    IN FMin(c2, Flt(1))

\* variant: a radius that excludes its boundary
WithinRadiusStrict(dist2, max_distance_km) == DistKmLt(dist2, max_distance_km)

\* the test of line 71
WithinRadius(dist2, max_distance_km) == DistKmLe(dist2, max_distance_km)

match_plume_to_facility(cat, index, plume_lat, plume_lon, max_distance_km) ==
    LET i == Query(cat, index, plume_lon, plume_lat)
        dist2 == Dist2(plume_lon, plume_lat, cat[i])
        facility == cat[i]
    IN IF WithinRadius(dist2, max_distance_km)
       THEN RetDict([facility_id |-> facility.facility_id,
                     facility_name |-> facility.facility_name,
                     facility_type |-> facility.facility_type,
                     facility_lat |-> facility.lat,
                     facility_lon |-> facility.lon,
                     dist2 |-> dist2,
                     reported_emissions_tons |->
                         Get(facility, "reported_emissions_tons_year", Flt(0)),
                     confidence_score |-> calculate_confidence(dist2, facility)])
       ELSE RetNone

\* pd.DataFrame(rows), for the column the analysis reads: a None among numbers
\* becomes NaN, a column of None only keeps None
DataFrame(rows) ==
    LET col == "ch4_enhancement_ppm_m"
        numeric == \E i \in 1..Len(rows) : col \in DOMAIN rows[i] /\ rows[i][col] # PyNone
    IN [i \in 1..Len(rows) |->
           IF col \in DOMAIN rows[i] /\ rows[i][col] = PyNone /\ numeric
           THEN [rows[i] EXCEPT ![col] = NaN]
           ELSE rows[i]]

\* the loop body of match_plumes_batch for the row at position idx (from 0)
MatchRow(cat, index, plume, idx, max_distance_km) ==
    LET match == match_plume_to_facility(cat, index, plume.lat, plume.lon, max_distance_km)
    IN IF match.kind = "dict"
       THEN <<match.v @@ [plume_id |-> idx,
                          plume_lat |-> plume.lat,
                          plume_lon |-> plume.lon,
                          date |-> Get(plume, "date", "Unknown"),
                          ch4_enhancement_ppm_m |->
                              Get(plume, "ch4_enhancement_ppm_m", PyNone)]>>
       ELSE <<>>

RECURSIVE MatchRows(_, _, _, _, _)
MatchRows(cat, index, plumes_df, k, max_distance_km) ==
    IF k = 0 THEN <<>>
    ELSE MatchRows(cat, index, plumes_df, k - 1, max_distance_km)
         \o MatchRow(cat, index, plumes_df[k], k - 1, max_distance_km)

\* an empty list of matches makes a DataFrame without columns, and
\* matches_df['facility_id'] of line 123 raises KeyError on it
match_plumes_batch(cat, index, plumes_df, max_distance_km) ==
    LET matches == MatchRows(cat, index, plumes_df, Len(plumes_df), max_distance_km)
    IN IF matches = <<>>
       THEN RetRaise("KeyError")
       ELSE RetFrame(DataFrame(matches))

\* get_facilities_in_region: the rows of facilities_df inside the box, its
\* bounds included, in catalog order
get_facilities_in_region(cat, region_bbox) ==
    LET lon_min == region_bbox[1]
        lat_min == region_bbox[2]
        lon_max == region_bbox[3]
        lat_max == region_bbox[4]
    IN RetFrame(SelectSeq(cat, LAMBDA f : /\ f.lon >= lon_min
                                          /\ f.lon <= lon_max
                                          /\ f.lat >= lat_min
                                          /\ f.lat <= lat_max))

---------------------------------------------------------------------------
(* UnderreportingAnalyzer *)

\* 1 ppm.m of methane is about 0.72 kg/km2 (line 47)
ConversionFactor == Frac(72, 100)

\* None * float and float * None raise TypeError
estimate_plume_mass_kg(ch4_enhancement_ppm_m, plume_area_km2) ==
    IF ch4_enhancement_ppm_m = PyNone \/ plume_area_km2 = PyNone
    THEN RetRaise("TypeError")
    ELSE LET mass_per_km2 == FMul(ch4_enhancement_ppm_m, ConversionFactor)
             total_mass_kg == FMul(mass_per_km2, plume_area_km2)
         IN RetDict(total_mass_kg)

\* _interpret_ratio
interpret_ratio(ratio) ==
    IF FLt(ratio, Flt(1))
    THEN "Detection within reported range - appears accurate"
    ELSE IF FLt(ratio, Frac(3, 2))
    THEN "Marginal discrepancy - likely within measurement uncertainty"
    ELSE IF FLt(ratio, Flt(3))
    THEN "Moderate discrepancy - possible underreporting"
    ELSE IF FLt(ratio, Flt(10))
    THEN "Severe discrepancy - significant underreporting indicated"
    ELSE "Critical discrepancy - major underreporting or data quality issue"

\* variant: the baseline in kg without the substitution for zero
ReportedKgUnguarded(reported_annual_tons) == FMul(reported_annual_tons, Flt(1000))

\* lines 77-81: the reported baseline in kg, 1.0 when that is zero
ReportedKg(reported_annual_tons) ==
    LET reported_kg == FMul(reported_annual_tons, Flt(1000))
    IN IF FEq(reported_kg, Flt(0)) THEN Flt(1) ELSE reported_kg

\* variant: a monthly scenario that counts 30 repetitions
ScenarioFactorMonth30(scenario) ==
    CASE scenario = "single_event" -> 1
      [] scenario = "monthly" -> 30
      [] scenario = "weekly" -> 52
      [] scenario = "daily" -> 365

\* lines 84-89: the repetition count of each scenario
ScenarioFactor(scenario) ==
    CASE scenario = "single_event" -> 1
      [] scenario = "monthly" -> 12
      [] scenario = "weekly" -> 52
      [] scenario = "daily" -> 365

Scenarios == {"single_event", "monthly", "weekly", "daily"}

\* variant: the mass spread over the repetitions instead of repeated
ScenarioRatioSpread(satellite_detection_kg, reported_kg, scenario) ==
    IF scenario = "single_event"
    THEN FDiv(satellite_detection_kg, reported_kg)
    ELSE FDiv(FDiv(satellite_detection_kg, Flt(ScenarioFactor(scenario))), reported_kg)

\* one entry of the ratios dict; the single_event entry has no multiplication
ScenarioRatio(satellite_detection_kg, reported_kg, scenario) ==
    IF scenario = "single_event"
    THEN FDiv(satellite_detection_kg, reported_kg)
    ELSE FDiv(FMul(satellite_detection_kg, Flt(ScenarioFactor(scenario))), reported_kg)

\* variant: 'aggressive' selecting the daily scenario
PrimaryAssumptionDaily(fa) ==
    CASE fa = "conservative" -> "single_event"
      [] fa = "moderate" -> "monthly"
      [] fa = "aggressive" -> "daily"
      [] OTHER -> "monthly"

\* assumption_map.get(frequency_assumption, 'monthly')
PrimaryAssumption(fa) ==
    CASE fa = "conservative" -> "single_event"
      [] fa = "moderate" -> "monthly"
      [] fa = "aggressive" -> "weekly"
      [] OTHER -> "monthly"

\* variant: assumption_map[frequency_assumption], which raises KeyError for a
\* value the map does not know
calculate_underreporting_ratio_indexed(satellite_detection_kg, reported_annual_tons, fa) ==
    IF reported_annual_tons = PyNone THEN RetRaise("TypeError")
    ELSE
    LET reported_kg == ReportedKg(reported_annual_tons)
    IN IF FEq(reported_kg, Flt(0))
       THEN RetRaise("ZeroDivisionError")
       ELSE IF fa \notin {"conservative", "moderate", "aggressive"}
       THEN RetRaise("KeyError")
       ELSE LET ratios == [s \in Scenarios |->
                              ScenarioRatio(satellite_detection_kg, reported_kg, s)]
                primary_ratio == ratios[PrimaryAssumption(fa)]
            IN RetDict([satellite_mass_kg |-> satellite_detection_kg,
                        reported_annual_tons |-> reported_annual_tons,
                        reported_annual_kg |-> reported_kg,
                        frequency_assumption |-> fa,
                        primary_ratio |-> primary_ratio,
                        all_ratios |-> ratios,
                        interpretation |-> interpret_ratio(primary_ratio)])

\* None * 1000.0 raises TypeError; a float division by 0.0 raises ZeroDivisionError
calculate_underreporting_ratio(satellite_detection_kg, reported_annual_tons, fa) ==
    IF reported_annual_tons = PyNone THEN RetRaise("TypeError")
    ELSE
    LET reported_kg == ReportedKg(reported_annual_tons)
    IN IF FEq(reported_kg, Flt(0))
       THEN RetRaise("ZeroDivisionError")
       ELSE LET ratios == [s \in Scenarios |->
                              ScenarioRatio(satellite_detection_kg, reported_kg, s)]
                primary_ratio == ratios[PrimaryAssumption(fa)]
            IN RetDict([satellite_mass_kg |-> satellite_detection_kg,
                        reported_annual_tons |-> reported_annual_tons,
                        reported_annual_kg |-> reported_kg,
                        frequency_assumption |-> fa,
                        primary_ratio |-> primary_ratio,
                        all_ratios |-> ratios,
                        interpretation |-> interpret_ratio(primary_ratio)])

StrUnknown == <<"U", "n", "k", "n", "o", "w", "n">>

\* analyze_match up to the append: the analysis dict, or the exception raised
analyze_match(match_data, fa) ==
    LET mass_kg == estimate_plume_mass_kg(
                       Get(match_data, "ch4_enhancement_ppm_m", Flt(0)),
                       Get(match_data, "plume_area_km2", Flt(1)))
    IN IF mass_kg.kind = "raise" THEN mass_kg
       ELSE LET analysis == calculate_underreporting_ratio(
                                mass_kg.v,
                                Get(match_data, "reported_emissions_tons", Flt(1)),
                                fa)
            IN IF analysis.kind = "raise" THEN analysis
               ELSE RetDict(analysis.v @@
                        [facility_name |-> Get(match_data, "facility_name", "Unknown"),
                         facility_type |-> Get(match_data, "facility_type", StrUnknown),
                         dist2 |-> Get(match_data, "dist2", 0),
                         confidence_score |-> Get(match_data, "confidence_score", Flt(0)),
                         date |-> Get(match_data, "date", "Unknown")])

\* the loop of analyze_matches_batch over the first k rows: the analyses made
\* before the first exception, and that exception if there is one
RECURSIVE AnalyzeRows(_, _, _)
AnalyzeRows(rows, k, fa) ==
    IF k = 0 THEN [analyses |-> <<>>, raised |-> RetNone]
    ELSE LET before == AnalyzeRows(rows, k - 1, fa)
             analysis == analyze_match(rows[k], fa)
         IN IF before.raised # RetNone THEN before
            ELSE IF analysis.kind = "raise"
            THEN [analyses |-> before.analyses, raised |-> analysis]
            ELSE [analyses |-> Append(before.analyses, analysis.v), raised |-> RetNone]

\* variant: risk levels whose lower bounds are exclusive
RiskLevelExclusive(x) ==
    IF FLt(Flt(10), x) THEN "HIGH" ELSE IF FLt(Flt(5), x) THEN "MEDIUM" ELSE "LOW"

\* the risk level of line 204
RiskLevel(x) ==
    IF FGe(x, Flt(10)) THEN "HIGH" ELSE IF FGe(x, Flt(5)) THEN "MEDIUM" ELSE "LOW"

\* variant: a mask that excludes the threshold
IsFlaggedStrict(row, ratio_threshold) == FLt(ratio_threshold, row.primary_ratio)

\* the mask of line 202
IsFlagged(row, ratio_threshold) == FGe(row.primary_ratio, ratio_threshold)

\* lines 202-205: the rows that pass the mask, in frame order, each with the
\* label it has in analysis_df (its position from 0) and its risk level
RECURSIVE Flagged(_, _, _)
Flagged(rows, k, ratio_threshold) ==
    IF k = 0 THEN <<>>
    ELSE Flagged(rows, k - 1, ratio_threshold)
         \o (IF IsFlagged(rows[k], ratio_threshold)
             THEN <<rows[k] @@ [index |-> k - 1,
                               risk_level |-> RiskLevel(rows[k].primary_ratio)]>>
             ELSE <<>>)

\* sort_values('primary_ratio', ascending=False): the orders of rows that are
\* non-increasing in primary_ratio (the sort is not stable)
SortedDescending(rows) ==
    LET n == Len(rows)
        perms == {p \in [1..n -> 1..n] : \A i, j \in 1..n : i # j => p[i] # p[j]}
    IN {[i \in 1..n |-> rows[p[i]]] : p \in
           {q \in perms : \A i, j \in 1..n :
               i < j => FGe(rows[q[i]].primary_ratio, rows[q[j]].primary_ratio)}}

---------------------------------------------------------------------------
(* Portfolio aggregation (underreporting_analyzer.py, esg_report_generator.py) *)

\* analysis_df['primary_ratio']
PrimaryRatios(analysis_df) ==
    [i \in 1..Len(analysis_df) |-> analysis_df[i].primary_ratio]

\* the values of a Series that pandas aggregates: skipna drops NaN
NotNaN(values) == SelectSeq(values, LAMBDA x : ~IsNaN(x))

\* the sum of the first k values
RECURSIVE FSum(_, _)
FSum(values, k) ==
    IF k = 0 THEN Flt(0) ELSE FAdd(FSum(values, k - 1), values[k])

\* the values in ascending order
RECURSIVE SortAscending(_)
SortAscending(values) ==
    IF values = <<>> THEN <<>>
    ELSE LET x == Head(values)
             rest == SortAscending(Tail(values))
         IN SelectSeq(rest, LAMBDA y : FLt(y, x)) \o <<x>>
                \o SelectSeq(rest, LAMBDA y : ~FLt(y, x))

\* Series.mean(), Series.median(), Series.max(), Series.min() of pandas: over
\* the values that are not NaN, and NaN when there is none
SeriesMean(values) ==
    LET v == NotNaN(values)
    IN IF v = <<>> THEN NaN ELSE FDiv(FSum(v, Len(v)), Flt(Len(v)))

SeriesMedian(values) ==
    LET v == SortAscending(NotNaN(values))
        n == Len(v)
    IN IF n = 0 THEN NaN
       ELSE IF n % 2 = 1 THEN v[(n + 1) \div 2]
       ELSE FDiv(FAdd(v[n \div 2], v[n \div 2 + 1]), Flt(2))

SeriesMax(values) ==
    LET v == SortAscending(NotNaN(values))
    IN IF v = <<>> THEN NaN ELSE v[Len(v)]

SeriesMin(values) ==
    LET v == SortAscending(NotNaN(values))
    IN IF v = <<>> THEN NaN ELSE v[1]

\* Series.std(): the sample standard deviation of the values that are not NaN,
\* kept as a term over these values (a square root is not a fraction); NaN for
\* fewer than two values
SeriesStd(values) ==
    LET v == NotNaN(values)
    IN IF Len(v) < 2 THEN NaN ELSE [std_of |-> v]

\* len(df[df['primary_ratio'] >= t]) and (ratios >= t).sum()
CountAtLeast(values, t) ==
    Cardinality({i \in 1..Len(values) : FGe(values[i], t)})

\* generate_summary_statistics; pd.DataFrame([]) has no 'primary_ratio' column
generate_summary_statistics(analysis_df) ==
    IF analysis_df = <<>> THEN RetRaise("KeyError")
    ELSE LET ratios == PrimaryRatios(analysis_df)
         IN RetDict([total_matches |-> Len(analysis_df),
                     mean_ratio |-> SeriesMean(ratios),
                     median_ratio |-> SeriesMedian(ratios),
                     max_ratio |-> SeriesMax(ratios),
                     min_ratio |-> SeriesMin(ratios),
                     std_ratio |-> SeriesStd(ratios),
                     matches_above_3x |-> CountAtLeast(ratios, Flt(3)),
                     matches_above_5x |-> CountAtLeast(ratios, Flt(5)),
                     matches_above_10x |-> CountAtLeast(ratios, Flt(10))])

\* ESG_THRESHOLDS, in the order of the dict
ESG_THRESHOLDS ==
    <<[level |-> "excellent", max_ratio |-> Frac(3, 2), grade |-> "A", color |-> "#22c55e"],
      [level |-> "good", max_ratio |-> Flt(2), grade |-> "B", color |-> "#84cc16"],
      [level |-> "moderate", max_ratio |-> Flt(3), grade |-> "C", color |-> "#eab308"],
      [level |-> "poor", max_ratio |-> Flt(5), grade |-> "D", color |-> "#f97316"],
      [level |-> "critical", max_ratio |-> PosInf, grade |-> "F", color |-> "#ef4444"]>>

\* calculate_esg_grade: the first level whose max_ratio is not below the ratio,
\* and the grade of lines 78-83 when no comparison is True
calculate_esg_grade(ratio) ==
    LET hits == {i \in 1..Len(ESG_THRESHOLDS) : FLe(ratio, ESG_THRESHOLDS[i].max_ratio)}
    IN IF hits = {}
       THEN [level |-> "critical", grade |-> "F", color |-> "#ef4444", ratio |-> ratio]
       ELSE LET t == ESG_THRESHOLDS[CHOOSE i \in hits : \A j \in hits : i <= j]
            IN [level |-> t.level, grade |-> t.grade, color |-> t.color, ratio |-> ratio]

\* ndarray.mean() and ndarray.max() of numpy: NaN is not skipped
ArrayMean(values) == FDiv(FSum(values, Len(values)), Flt(Len(values)))

ArrayMax(values) ==
    IF \E i \in 1..Len(values) : IsNaN(values[i]) THEN NaN ELSE SeriesMax(values)

\* (ratios >= t).mean(): the share of the entries at or above t
ShareAtLeast(values, t) == Frac(CountAtLeast(values, t), Len(values))

\* variant: a share of exactly 30 % counts
ExceedsShareInclusive(share) == FGe(share, Frac(3, 10))

\* share > 0.3 of line 246
ExceedsShare(share) == FLt(Frac(3, 10), share)

\* generate_portfolio_summary, at the time now
generate_portfolio_summary(analysis_df, now) ==
    IF analysis_df = <<>>
    THEN RetDict([error |-> "No analysis data provided"])
    ELSE LET ratios == PrimaryRatios(analysis_df)
             grades == [i \in 1..Len(ratios) |-> calculate_esg_grade(ratios[i])]
             grade_counts ==
                 [g \in {grades[i].grade : i \in 1..Len(grades)} |->
                     Cardinality({i \in 1..Len(grades) : grades[i].grade = g})]
         IN RetDict([assessment_date |-> now,
                     total_facilities |-> Len(analysis_df),
                     average_ratio |-> ArrayMean(ratios),
                     median_ratio |-> SeriesMedian(ratios),
                     max_ratio |-> ArrayMax(ratios),
                     grade_distribution |-> grade_counts,
                     facilities_above_3x |-> CountAtLeast(ratios, Flt(3)),
                     facilities_above_5x |-> CountAtLeast(ratios, Flt(5)),
                     portfolio_risk_level |->
                         IF ExceedsShare(ShareAtLeast(ratios, Flt(3))) THEN "HIGH"
                         ELSE IF ExceedsShare(ShareAtLeast(ratios, Flt(2))) THEN "MODERATE"
                         ELSE "LOW"])

---------------------------------------------------------------------------
(* PlumeDetector (processing/detect_plumes.py) *)

\* buffer_km of PlumeDetector.__init__
BufferKm == 30

\* EMISSION_FACTORS
WindSpeedMs == 5
MolWeightNo2 == Frac(46, 1000)
No2ToNox == Frac(132, 100)
NoxToCo2Coal == 217
NoxToCo2Gas == 350

\* THRESHOLDS
MinEnhancementPct == 10
HighConfidencePct == 30
MediumConfidencePct == 15

FuelCoal == <<"c", "o", "a", "l">>
FuelGas == <<"g", "a", "s">>
FuelLignite == <<"l", "i", "g", "n", "i", "t", "e">>

\* variant: the estimate without the clamp
MaxZeroUnclamped(x) == x

\* max(0, x) of Python: x if x > 0 else 0
MaxZero(x) == IF FLt(Flt(0), x) THEN x ELSE Flt(0)

\* variant: the two ratios exchanged
NoxToCo2Exchanged(fuel_type) ==
    IF fuel_type = FuelCoal THEN NoxToCo2Gas ELSE NoxToCo2Coal

\* the NOx to CO2 ratio of lines 208-211
NoxToCo2(fuel_type) ==
    IF fuel_type = FuelCoal THEN NoxToCo2Coal ELSE NoxToCo2Gas

\* _estimate_emissions
estimate_emissions(enhancement_mol_m2, fuel_type) ==
    LET nox_to_co2 == NoxToCo2(fuel_type)
        area_m2 == (BufferKm * 1000) * (BufferKm * 1000)
        product == FMul(FMul(FMul(FMul(FMul(enhancement_mol_m2, Flt(area_m2)),
                                            Flt(WindSpeedMs)),
                                       MolWeightNo2),
                                  No2ToNox),
                             Flt(3600))
        nox_flux == FDiv(product, Flt(1000000))
        co2_flux == FMul(nox_flux, Flt(nox_to_co2))
    IN [nox_kg_hr |-> MaxZero(nox_flux),
        co2_kg_hr |-> MaxZero(co2_flux),
        co2_tons_day |-> MaxZero(FDiv(FMul(co2_flux, Flt(24)), Flt(1000)))]

\* variant: thresholds that exclude their own value
DetectionConfidenceAbove(enhancement_pct) ==
    IF FLt(Flt(HighConfidencePct), enhancement_pct) THEN "HIGH"
    ELSE IF FLt(Flt(MediumConfidencePct), enhancement_pct) THEN "MEDIUM"
    ELSE IF FLt(Flt(MinEnhancementPct), enhancement_pct) THEN "LOW"
    ELSE "NONE"

\* lines 162-169
DetectionConfidence(enhancement_pct) ==
    IF FGe(enhancement_pct, Flt(HighConfidencePct)) THEN "HIGH"
    ELSE IF FGe(enhancement_pct, Flt(MediumConfidencePct)) THEN "MEDIUM"
    ELSE IF FGe(enhancement_pct, Flt(MinEnhancementPct)) THEN "LOW"
    ELSE "NONE"

\* detect_plume; stats is what the two reduceRegion(...).getInfo() calls give for
\* the zones of the plant: [error |-> TRUE] when one of them raises, else the
\* band values of the plume zone and of the background zone (None when the zone
\* has no valid pixel)
detect_plume(stats, plant_lat, plant_lon, plant_name, capacity_mw, fuel_type) ==
    IF "error" \in DOMAIN stats THEN RetNone
    ELSE IF stats.plume = PyNone \/ stats.background = PyNone THEN RetNone
    ELSE LET plume_no2 == stats.plume
             background_no2 == stats.background
             enhancement == FSub(plume_no2, background_no2)
             enhancement_pct ==
                 IF FLt(Flt(0), background_no2)
                 THEN FMul(FDiv(enhancement, background_no2), Flt(100))
                 ELSE Flt(0)
             emissions == estimate_emissions(enhancement, fuel_type)
         IN RetDict([plant_name |-> plant_name,
                     latitude |-> plant_lat,
                     longitude |-> plant_lon,
                     capacity_mw |-> capacity_mw,
                     plume_no2_mol_m2 |-> plume_no2,
                     background_no2_mol_m2 |-> background_no2,
                     enhancement_mol_m2 |-> enhancement,
                     enhancement_percent |-> enhancement_pct,
                     estimated_nox_kg_hr |-> emissions.nox_kg_hr,
                     estimated_co2_kg_hr |-> emissions.co2_kg_hr,
                     estimated_co2_tons_day |-> emissions.co2_tons_day,
                     detection_confidence |-> DetectionConfidence(enhancement_pct),
                     fuel_type |-> fuel_type])

\* a NO2 column in units of 1e-6 mol/m2
MicroMol(k) == Frac(k, 1000000)

Plant(name, lon, plume, background, fuel_type) ==
    [name |-> name, latitude |-> 1, longitude |-> lon, capacity_mw |-> Flt(1000),
     fuel_type |-> fuel_type, stats |-> [plume |-> plume, background |-> background]]

\* the plants of the model, each with what the satellite composite gives over
\* its two zones: enhancements of 30 %, 15 % and 10 %, none, a plume below the
\* background, a missing plume value, a missing background value, a background
\* of zero, and a failing request
Plants ==
    {Plant("Vindhyachal", 1, MicroMol(13), MicroMol(10), FuelCoal),
     Plant("Mundra", 2, Frac(23, 2000000), MicroMol(10), <<"G", "a", "s">>),
     Plant("Sasan", 3, MicroMol(11), MicroMol(10), <<"C", "o", "a", "l">>),
     Plant("Sipat", 4, MicroMol(10), MicroMol(10), FuelCoal),
     Plant("Rihand", 5, MicroMol(9), MicroMol(10), FuelCoal),
     Plant("Talcher", 6, PyNone, MicroMol(10), FuelCoal),
     Plant("Chandrapur", 7, MicroMol(12), PyNone, FuelGas),
     Plant("Anpara", 8, MicroMol(2), Flt(0), FuelLignite),
     [Plant("Korba", 9, PyNone, PyNone, FuelCoal)
         EXCEPT !.stats = [error |-> TRUE]]}

\* the plants detect_plume is called on: those of the batches, and a plant
\* whose background zone averages below zero (retrieval noise)
SinglePlants ==
    Plants \cup {Plant("Dadri", 10, MicroMol(2), MicroMol(0 - 3), FuelGas)}

\* the body of the loop of detect_all_plants for one row of plants_df
DetectRow(plant) ==
    LET result == detect_plume(plant.stats, plant.latitude, plant.longitude,
                               plant.name, Get(plant, "capacity_mw", PyNone),
                               Lower(Get(plant, "fuel_type", FuelCoal)))
    IN IF result.kind = "dict"
       THEN <<result.v @@ [state |-> Get(plant, "state", PyNone),
                           operator |-> Get(plant, "operator", PyNone)]>>
       ELSE <<>>

\* variant: a plant without a result ends the batch with no detections
RECURSIVE DetectRowsUntilMissing(_, _)
DetectRowsUntilMissing(plants_df, k) ==
    IF k = 0 THEN <<>>
    ELSE IF DetectRow(plants_df[k]) = <<>> THEN <<>>
    ELSE DetectRowsUntilMissing(plants_df, k - 1) \o DetectRow(plants_df[k])

RECURSIVE DetectRows(_, _)
DetectRows(plants_df, k) ==
    IF k = 0 THEN <<>>
    ELSE DetectRows(plants_df, k - 1) \o DetectRow(plants_df[k])

\* detect_all_plants
detect_all_plants(plants_df) == RetFrame(DetectRows(plants_df, Len(plants_df)))

---------------------------------------------------------------------------
(* Inputs of the operations *)

\* the DataFrames of detections handed to match_plumes_batch: every row is
\* another detection
PlumeFrames == {DataFrame(rows) : rows \in SeqsUpTo(Plumes, MaxBatch)}

\* 'yearly' is a value the assumption_map does not know
FrequencyAssumptions == {"conservative", "moderate", "aggressive", "yearly"}

\* masses in kg; against a zero baseline the conservative ratios of 1, 3/2, 3
\* and 10 are the bounds of the interpretation bands; the last two make
\* mass * 365 and mass * 12 overflow
MassInputs ==
    {Flt(0 - 50), Flt(0), Flt(1), Frac(3, 2), Flt(3), Flt(10), Flt(900),
     Flt(FloatMax \div 365 + 1), Flt(FloatMax \div 12 + 1)}

\* reported annual emissions in tons
TonsInputs == {Flt(0 - 1), Flt(0), Frac(18, 5)}

RatioThresholds == {Flt(3), Flt(5)}

\* the DataFrames of matches the matcher returns for each catalog
MatchFrames ==
    [cat \in Catalogs |->
        LET returned == {match_plumes_batch(cat, BuildIndex(cat), plumes_df, m) :
                            plumes_df \in PlumeFrames, m \in MaxDistances}
        IN {r.rows : r \in {x \in returned : x.kind = "frame"}}]

\* the plume_area_km2 a caller of analyze_match copies from a detection
PlumeAreas == {Flt(2), PyNone}

\* the dicts analyze_match is called with, for each catalog: the match that
\* match_plume_to_facility returns for a plume on the first facility, the row
\* (match.to_dict()) of each DataFrame of one match, and the row of the
\* detection of 1250 ppm.m on a facility together with a plume_area_km2
MatchDicts ==
    [cat \in Catalogs |->
        LET single == {rows[1] : rows \in {x \in MatchFrames[cat] : Len(x) = 1}}
        IN {(match_plume_to_facility(cat, BuildIndex(cat), cat[1].lat, cat[1].lon, Flt(5))).v}
           \cup single
           \cup {row @@ [plume_area_km2 |-> area] :
                    row \in {x \in single : x.dist2 = 0
                                 /\ x.ch4_enhancement_ppm_m = Flt(1250)},
                    area \in PlumeAreas}]

\* the primary ratios of the portfolios: below 2, exactly 2 and exactly 3
PortfolioRatios == {Flt(1), Flt(2), Flt(3)}

\* the analysis DataFrames of at most n entries handed to
\* generate_portfolio_summary, by the column it reads, in the order
\* flag_potential_violators returns (descending primary ratio)
RECURSIVE FramesUpTo(_)
FramesUpTo(n) ==
    IF n = 0 THEN {<<>>}
    ELSE LET shorter == FramesUpTo(n - 1)
         IN shorter \cup
            UNION {{Append(df, [primary_ratio |-> r]) :
                       r \in {x \in PortfolioRatios :
                                 df = <<>> \/ FLe(x, df[Len(df)].primary_ratio)}} :
                      df \in {t \in shorter : Len(t) = n - 1}}

PortfolioFrames == FramesUpTo(MaxPortfolio)

\* datetime.now().isoformat()
Clock == {"2024-06-16T12:00:00"}

---------------------------------------------------------------------------
(* The state machine *)

\* FacilityMatcher.__init__ on one of the catalogs cats and
\* UnderreportingAnalyzer.__init__, for a session that passes one of fas as
\* frequency_assumption
InitWith(cats, fas) ==
    /\ facilities \in cats
    /\ spatial_index = BuildIndex(facilities)
    /\ frequency_assumption \in fas
    /\ results = <<>>
    /\ call = [op |-> "__init__"]
    /\ ret = RetNone

\* FacilityMatcher.match_plume_to_facility
MatchPlumeToFacility ==
    \E p \in Plumes, m \in MaxDistances :
        /\ call' = [op |-> "match_plume_to_facility", plume_lat |-> p.lat,
                    plume_lon |-> p.lon, max_distance_km |-> m]
        /\ ret' = match_plume_to_facility(facilities, spatial_index, p.lat, p.lon, m)
        /\ UNCHANGED <<facilities, spatial_index, frequency_assumption, results>>

\* FacilityMatcher.match_plumes_batch
MatchPlumesBatch ==
    \E plumes_df \in PlumeFrames, m \in MaxDistances :
        /\ call' = [op |-> "match_plumes_batch", plumes_df |-> plumes_df,
                    max_distance_km |-> m]
        /\ ret' = match_plumes_batch(facilities, spatial_index, plumes_df, m)
        /\ UNCHANGED <<facilities, spatial_index, frequency_assumption, results>>

\* variant: a region query that keeps the facilities of the region as catalog
GetFacilitiesInRegionNarrowing ==
    \E region_bbox \in RegionBoxes :
        LET region == get_facilities_in_region(facilities, region_bbox).rows
        IN /\ call' = [op |-> "get_facilities_in_region", region_bbox |-> region_bbox]
           /\ ret' = RetFrame(region)
           /\ facilities' = IF region = <<>> THEN facilities ELSE region
           /\ spatial_index' = BuildIndex(facilities')
           /\ UNCHANGED <<frequency_assumption, results>>

\* FacilityMatcher.get_facilities_in_region
GetFacilitiesInRegion ==
    \E region_bbox \in RegionBoxes :
        /\ call' = [op |-> "get_facilities_in_region", region_bbox |-> region_bbox]
        /\ ret' = get_facilities_in_region(facilities, region_bbox)
        /\ UNCHANGED <<facilities, spatial_index, frequency_assumption, results>>

\* UnderreportingAnalyzer.__init__
NewAnalyzer ==
    /\ results' = <<>>
    /\ call' = [op |-> "UnderreportingAnalyzer"]
    /\ ret' = RetNone
    /\ UNCHANGED <<facilities, spatial_index, frequency_assumption>>

\* UnderreportingAnalyzer.calculate_underreporting_ratio
CalculateUnderreportingRatio ==
    \E mass \in MassInputs, tons \in TonsInputs :
        /\ call' = [op |-> "calculate_underreporting_ratio",
                    satellite_detection_kg |-> mass,
                    reported_annual_tons |-> tons,
                    frequency_assumption |-> frequency_assumption,
                    primary_assumption |-> PrimaryAssumption(frequency_assumption)]
        /\ ret' = calculate_underreporting_ratio(mass, tons, frequency_assumption)
        /\ UNCHANGED <<facilities, spatial_index, frequency_assumption, results>>

\* UnderreportingAnalyzer.analyze_match
AnalyzeMatch ==
    /\ Len(results) < MaxResults
    /\ \E match_data \in MatchDicts[facilities] :
        LET analysis == analyze_match(match_data, frequency_assumption)
        IN /\ call' = [op |-> "analyze_match", match_data |-> match_data,
                       frequency_assumption |-> frequency_assumption]
           /\ results' = IF analysis.kind = "dict"
                         THEN Append(results, analysis.v) ELSE results
           /\ ret' = analysis
    /\ UNCHANGED <<facilities, spatial_index, frequency_assumption>>

\* UnderreportingAnalyzer.analyze_matches_batch, on a DataFrame of matches or on
\* an empty DataFrame
AnalyzeMatchesBatch ==
    \E matches_df \in MatchFrames[facilities] \cup {<<>>} :
        LET done == AnalyzeRows(matches_df, Len(matches_df), frequency_assumption)
        IN /\ Len(results) + Len(matches_df) <= MaxResults
           /\ call' = [op |-> "analyze_matches_batch", matches_df |-> matches_df,
                       frequency_assumption |-> frequency_assumption]
           /\ results' = results \o done.analyses
           /\ ret' = IF done.raised # RetNone THEN done.raised
                     ELSE RetFrame(done.analyses)
           /\ UNCHANGED <<facilities, spatial_index, frequency_assumption>>

\* UnderreportingAnalyzer.flag_potential_violators on the DataFrame just returned
\* by analyze_matches_batch; a DataFrame without rows has no 'primary_ratio' column
FlagPotentialViolators ==
    /\ call.op = "analyze_matches_batch"
    /\ ret.kind = "frame"
    /\ \E ratio_threshold \in RatioThresholds :
        /\ call' = [op |-> "flag_potential_violators", analysis_df |-> ret.rows,
                    ratio_threshold |-> ratio_threshold]
        /\ IF ret.rows = <<>>
           THEN ret' = RetRaise("KeyError")
           ELSE \E sorted \in SortedDescending(
                                  Flagged(ret.rows, Len(ret.rows), ratio_threshold)) :
                    ret' = RetFrame(sorted)
    /\ UNCHANGED <<facilities, spatial_index, frequency_assumption, results>>

\* UnderreportingAnalyzer.generate_summary_statistics
GenerateSummaryStatistics(analysis_df) ==
    /\ call' = [op |-> "generate_summary_statistics", analysis_df |-> analysis_df]
    /\ ret' = generate_summary_statistics(analysis_df)
    /\ UNCHANGED <<facilities, spatial_index, frequency_assumption, results>>

\* ESGReportGenerator.generate_portfolio_summary
GeneratePortfolioSummary(analysis_df) ==
    \E now \in Clock :
        /\ call' = [op |-> "generate_portfolio_summary", analysis_df |-> analysis_df]
        /\ ret' = generate_portfolio_summary(analysis_df, now)
        /\ UNCHANGED <<facilities, spatial_index, frequency_assumption, results>>

\* the DataFrame analyze_matches_batch has just returned
AnalysisReturned == call.op = "analyze_matches_batch" /\ ret.kind = "frame"

\* the matcher, over every catalog
InitMatcher == InitWith(Catalogs \cup {ProcessingCatalog, LargeCatalog}, {"moderate"})

NextMatcher == MatchPlumeToFacility \/ MatchPlumesBatch \/ GetFacilitiesInRegion

SpecMatcher == InitMatcher /\ [][NextMatcher]_vars

\* the ratio computation called directly and through analyze_match, for every
\* frequency assumption
InitRatio == InitWith({<<F1, F2>>}, FrequencyAssumptions)

NextRatio == CalculateUnderreportingRatio \/ AnalyzeMatch

SpecRatio == InitRatio /\ [][NextRatio]_vars

\* the analysis of the matcher's DataFrames and the flagging, over every catalog
\* and frequency assumption
InitAnalysis == InitWith(Catalogs, FrequencyAssumptions)

\* the two summaries, of the DataFrame analyze_matches_batch has just returned
SummaryOfAnalysis == AnalysisReturned /\ GenerateSummaryStatistics(ret.rows)

PortfolioOfAnalysis == AnalysisReturned /\ GeneratePortfolioSummary(ret.rows)

NextAnalysis ==
    \/ NewAnalyzer
    \/ AnalyzeMatchesBatch
    \/ FlagPotentialViolators
    \/ SummaryOfAnalysis
    \/ PortfolioOfAnalysis

SpecAnalysis == InitAnalysis /\ [][NextAnalysis]_vars

\* PlumeDetector.detect_plume, for a plant and a fuel type
DetectPlume ==
    \E plant \in SinglePlants, fuel_type \in {FuelCoal, FuelGas, FuelLignite} :
        /\ call' = [op |-> "detect_plume", plant_name |-> plant.name,
                    stats |-> plant.stats, fuel_type |-> fuel_type]
        /\ ret' = detect_plume(plant.stats, plant.latitude, plant.longitude,
                               plant.name, plant.capacity_mw, fuel_type)
        /\ UNCHANGED <<facilities, spatial_index, frequency_assumption, results>>

\* PlumeDetector.detect_all_plants
DetectAllPlants ==
    \E plants_df \in SeqsUpTo(Plants, MaxBatch) :
        /\ call' = [op |-> "detect_all_plants", plants_df |-> plants_df]
        /\ ret' = detect_all_plants(plants_df)
        /\ UNCHANGED <<facilities, spatial_index, frequency_assumption, results>>

\* the portfolio summary of the report generator
InitPortfolio == InitWith({<<F1>>}, {"moderate"})

NextPortfolio == \E analysis_df \in PortfolioFrames : GeneratePortfolioSummary(analysis_df)

SpecPortfolio == InitPortfolio /\ [][NextPortfolio]_vars

\* the detector
InitDetector == InitWith({<<F1>>}, {"moderate"})

NextDetector == DetectPlume \/ DetectAllPlants

SpecDetector == InitDetector /\ [][NextDetector]_vars

---------------------------------------------------------------------------
(* Properties of FacilityMatcher, checked under SpecMatcher *)

\* the catalog positions whose facility is nearest to the detection of the call
Nearest ==
    {i \in 1..Len(facilities) :
        \A j \in 1..Len(facilities) :
            Dist2(call.plume_lon, call.plume_lat, facilities[i])
                <= Dist2(call.plume_lon, call.plume_lat, facilities[j])}

\* the catalog positions whose facility lies within max_distance_km of the
\* detection of the call
InRadius ==
    {i \in 1..Len(facilities) :
        DistKmLe(Dist2(call.plume_lon, call.plume_lat, facilities[i]),
                 call.max_distance_km)}

\* C1: match_plume_to_facility returns a Match if and only if the distance in km
\* to the nearest catalog facility is <= max_distance_km; a detection farther than
\* max_distance_km from every facility yields None, whatever the catalog size.
C1_MatchIffWithinRadius ==
    call.op = "match_plume_to_facility" =>
        /\ ret.kind \in {"dict", "None"}
        /\ ret.kind = "dict" <=> (\E i \in Nearest : i \in InRadius)
        /\ InRadius = {} => ret = RetNone

\* a Match at a distance of exactly max_distance_km
C1_MatchOnTheRadius ==
    /\ call.op = "match_plume_to_facility"
    /\ ret.kind = "dict"
    /\ ret.v.dist2 > 0
    /\ DistKmLe(ret.v.dist2, call.max_distance_km)
    /\ ~DistKmLt(ret.v.dist2, call.max_distance_km)

\* C2: when several facilities lie within the radius of a detection,
\* match_plume_to_facility returns exactly one facility of the catalog, and no
\* catalog facility is strictly closer to the detection than the returned one.
C2_NearestFacilityReturned ==
    (call.op = "match_plume_to_facility" /\ ret.kind = "dict") =>
        LET returned == {i \in 1..Len(facilities) :
                            facilities[i].facility_id = ret.v.facility_id}
        IN /\ Cardinality(returned) = 1
           /\ \A i \in returned :
                 /\ ret.v.facility_name = facilities[i].facility_name
                 /\ ret.v.facility_lat = facilities[i].lat
                 /\ ret.v.facility_lon = facilities[i].lon
                 /\ ret.v.dist2 = Dist2(call.plume_lon, call.plume_lat, facilities[i])
           /\ \A j \in 1..Len(facilities) :
                 ~(Dist2(call.plume_lon, call.plume_lat, facilities[j]) < ret.v.dist2)

\* two facilities within the radius, the returned one not the first of the catalog
C2_SeveralInRadius ==
    /\ call.op = "match_plume_to_facility"
    /\ ret.kind = "dict"
    /\ Cardinality(InRadius) >= 2
    /\ ret.v.facility_id # facilities[1].facility_id
    /\ ret.v.dist2 > 0

\* C3: every Match returned by match_plume_to_facility or match_plumes_batch has a
\* confidence_score in [0, 1], for every distance, radius and facility type.
C3_ConfidenceInUnitInterval ==
    LET InUnit(c) == FLe(Flt(0), c) /\ FLe(c, Flt(1))
    IN /\ (call.op = "match_plume_to_facility" /\ ret.kind = "dict")
              => InUnit(ret.v.confidence_score)
       /\ (call.op = "match_plumes_batch" /\ ret.kind = "frame")
              => \A i \in 1..Len(ret.rows) : InUnit(ret.rows[i].confidence_score)

\* a batch with a Match of confidence 1 and a Match of the lowest distance tier
C3_BatchOfTwoConfidences ==
    /\ call.op = "match_plumes_batch"
    /\ ret.kind = "frame"
    /\ \E i, j \in 1..Len(ret.rows) :
          /\ ret.rows[i].confidence_score = Flt(1)
          /\ FLe(ret.rows[j].confidence_score, Frac(3, 10))

\* the Matches of the last call: the one match_plume_to_facility returned, or
\* the rows of the DataFrame match_plumes_batch returned
Matches ==
    IF call.op = "match_plume_to_facility" /\ ret.kind = "dict" THEN {ret.v}
    ELSE IF call.op = "match_plumes_batch" /\ ret.kind = "frame"
         THEN {ret.rows[i] : i \in 1..Len(ret.rows)}
         ELSE {}

\* C15: match_plumes_batch never raises because of unattributed detections: for
\* every batch, also one in which no detection lies within the radius of a
\* facility and an empty one, it returns the (possibly empty) collection of
\* matches.
C15_BatchNeverRaises ==
    call.op = "match_plumes_batch" =>
        /\ ret.kind = "frame"
        /\ \A p \in 1..Len(call.plumes_df) :
              (\E i \in 1..Len(facilities) :
                  DistKmLe(Dist2(call.plumes_df[p].lon, call.plumes_df[p].lat,
                                 facilities[i]),
                           call.max_distance_km))
                  <=> \E r \in 1..Len(ret.rows) : ret.rows[r].plume_id = p - 1

\* a batch of one detection that lies outside the radius of every facility:
\* KeyError
C15_BatchWithoutMatchRaises ==
    /\ call.op = "match_plumes_batch"
    /\ Len(call.plumes_df) = 1
    /\ ret = RetRaise("KeyError")

\* the distance tier and the facility-type tier of a Match
DistanceTier(dist2) ==
    IF DistKmLt(dist2, Flt(1)) THEN Flt(1)
    ELSE IF DistKmLt(dist2, Flt(3)) THEN Frac(8, 10)
    ELSE IF DistKmLt(dist2, Flt(5)) THEN Frac(6, 10)
    ELSE Frac(3, 10)

TypeTier(type) ==
    CASE type \in {TypeOilExtraction, TypeOilRefinery, TypeGasProcessing} -> Flt(1)
      [] type = TypeRefinery -> Frac(9, 10)
      [] type = TypeLngTerminal -> Frac(85, 100)
      [] OTHER -> Frac(7, 10)

\* C18: the confidence of a Match is min(1.0, d * t), d being 1.0 below 1 km,
\* 0.8 in [1, 3), 0.6 in [3, 5) and 0.3 from 5 km, and t being 1.0, 0.9, 0.85
\* or 0.7 by the facility type alone.
C18_ConfidenceIsProductOfTiers ==
    \A m \in Matches :
        m.confidence_score =
            FMin(Flt(1), FMul(DistanceTier(m.dist2), TypeTier(m.facility_type)))

\* a Match of a refinery at exactly 1 km: 0.8 * 0.9
C18_RefineryAtOneKm ==
    /\ call.op = "match_plume_to_facility"
    /\ ret.kind = "dict"
    /\ ret.v.facility_type = TypeRefinery
    /\ DistKmLe(ret.v.dist2, Flt(1))
    /\ ~DistKmLt(ret.v.dist2, Flt(1))
    /\ ret.v.confidence_score = Frac(72, 100)

\* the types that name a refinery, a processing plant, an LNG facility or a
\* terminal
SecondaryTypes == {TypeRefinery, TypeOilRefinery, TypeGasProcessing, TypeLngTerminal}

\* the confidence of a facility of the given type at the given distance
ConfidenceOfType(dist2, type) == calculate_confidence(dist2, [facility_type |-> type])

\* C19: at equal distance a facility of a secondary processing, refining or
\* terminal type gets a strictly lower confidence than an 'Oil Extraction'
\* facility, and a facility of an unclassified type a strictly lower confidence
\* than both.
C19_SecondaryBelowExtraction ==
    \A m \in Matches :
        /\ m.facility_type \in SecondaryTypes =>
              FLt(m.confidence_score, ConfidenceOfType(m.dist2, TypeOilExtraction))
        /\ m.facility_type = TypeOffshorePlatform =>
              \A type \in SecondaryTypes \cup {TypeOilExtraction} :
                  FLt(m.confidence_score, ConfidenceOfType(m.dist2, type))

\* a Match of an 'Oil Refinery' on the detection: confidence 1.0, that of an
\* 'Oil Extraction' facility
C19_OilRefineryAsExtraction ==
    /\ call.op = "match_plume_to_facility"
    /\ ret.kind = "dict"
    /\ ret.v.facility_type = TypeOilRefinery
    /\ ret.v.dist2 = 0
    /\ ret.v.confidence_score = Flt(1)
    /\ ret.v.confidence_score = ConfidenceOfType(0, TypeOilExtraction)

\* the single-detection Match of the detection at position p of the batch of
\* the call
SingleMatch(p) ==
    match_plume_to_facility(facilities, spatial_index, call.plumes_df[p].lat,
                            call.plumes_df[p].lon, call.max_distance_km)

\* the rows of the returned DataFrame that belong to the detection at position p
RowsOf(p) == {r \in 1..Len(ret.rows) : ret.rows[r].plume_id = p - 1}

\* the rows of the returned DataFrame are, detection by detection, the
\* single-detection Matches
PerDetection ==
    /\ \A p \in 1..Len(call.plumes_df) :
          IF SingleMatch(p).kind = "dict"
          THEN /\ Cardinality(RowsOf(p)) = 1
               /\ \A r \in RowsOf(p) : \A k \in DOMAIN SingleMatch(p).v :
                     ret.rows[r][k] = SingleMatch(p).v[k]
          ELSE RowsOf(p) = {}
    /\ \A r \in 1..Len(ret.rows) : \E p \in 1..Len(call.plumes_df) : r \in RowsOf(p)
    /\ Len(ret.rows) <= Len(call.plumes_df)
    /\ Cardinality({ret.rows[r].facility_id : r \in 1..Len(ret.rows)}) <= Len(ret.rows)

\* C22: match_plumes_batch treats each detection independently: its result has
\* exactly one Match for each detection whose single-detection match is not
\* None, equal to that Match, and none for the other detections; the matched
\* count is <= the number of detections and the number of distinct facilities
\* is <= the matched count.
C22_BatchIsPerDetection ==
    call.op = "match_plumes_batch" => (ret.kind = "frame" /\ PerDetection)

\* a batch of two detections, neither of which has a single-detection Match:
\* no result
C22_TwoUnmatchedDetections ==
    /\ call.op = "match_plumes_batch"
    /\ Len(call.plumes_df) = 2
    /\ \A p \in 1..2 : SingleMatch(p) = RetNone
    /\ ret.kind = "raise"

\* C22 on the batches that return: whenever match_plumes_batch returns a
\* DataFrame, its rows are the single-detection Matches
C22_PerDetectionWhenReturned ==
    (call.op = "match_plumes_batch" /\ ret.kind = "frame") => PerDetection

\* C23: after construction every call of match_plume_to_facility,
\* match_plumes_batch and get_facilities_in_region leaves the facility catalog
\* and the spatial index over its coordinates unchanged, so that a query
\* returns, at any later point, the outcome it has on the catalog and the index
\* as they were built.
C23_CatalogAndIndexReadOnly ==
    [][/\ facilities' = facilities
       /\ spatial_index' = spatial_index
       /\ call'.op = "match_plume_to_facility" =>
             ret' = match_plume_to_facility(facilities, BuildIndex(facilities),
                                            call'.plume_lat, call'.plume_lon,
                                            call'.max_distance_km)]_vars

\* a region query that returned several facilities of the catalog of four, the
\* catalog and its index being as built
C23_RegionQueryOnFourFacilities ==
    /\ call.op = "get_facilities_in_region"
    /\ Len(facilities) = 4
    /\ Len(ret.rows) = 2
    /\ spatial_index = BuildIndex(facilities)

\* the catalog positions of the facility of the returned Match
ReturnedPositions ==
    {i \in 1..Len(facilities) : facilities[i].facility_id = ret.v.facility_id}

\* the returned facility comes first, in catalog order, among the facilities
\* nearest to the detection
FirstOfNearest == \A i \in ReturnedPositions : \A j \in Nearest : i <= j

\* C25: when two or more facilities are at exactly the same, minimal distance
\* from a detection, match_plume_to_facility returns the one that comes first
\* in catalog index order.
C25_TieGoesToFirstInCatalog ==
    (/\ call.op = "match_plume_to_facility"
     /\ ret.kind = "dict"
     /\ Cardinality(Nearest) >= 2) => FirstOfNearest

\* in a catalog of more than LeafSize facilities the first and the last one are
\* equally near to the detection, and the Match is the last one
C25_TieAcrossLeaves ==
    /\ call.op = "match_plume_to_facility"
    /\ ret.kind = "dict"
    /\ Len(facilities) > LeafSize
    /\ Nearest = {1, Len(facilities)}
    /\ ReturnedPositions = {Len(facilities)}

\* C25 on the catalogs that fit one leaf of the index: of equally near
\* facilities the first in catalog order is returned
C25_FirstWithinOneLeaf ==
    (/\ call.op = "match_plume_to_facility"
     /\ ret.kind = "dict"
     /\ Len(facilities) <= LeafSize) => FirstOfNearest

\* the distance multipliers of a facility inside the radius
InRadiusTiers == {Flt(1), Frac(8, 10), Frac(6, 10)}

\* the confidence of Match m is the capped product of distance multiplier d and
\* the multiplier of its facility type
HasDistanceMultiplier(m, d) ==
    m.confidence_score = FMin(Flt(1), FMul(d, TypeTier(m.facility_type)))

\* C27: for every Match returned under the default radius max_distance_km = 5.0
\* the distance multiplier of its confidence is one of the in-radius tiers 1.0,
\* 0.8 or 0.6; the floor multiplier 0.3 is applied only to a facility that lies
\* beyond that radius.
C27_InRadiusTiersUnderDefaultRadius ==
    \A m \in Matches :
        /\ call.max_distance_km = Flt(5)
              => \E d \in InRadiusTiers : HasDistanceMultiplier(m, d)
        /\ HasDistanceMultiplier(m, Frac(3, 10)) => ~DistKmLe(m.dist2, Flt(5))

\* a Match at exactly 5.0 km under the default radius, with the floor multiplier
C27_FloorOnTheDefaultRadius ==
    /\ call.op = "match_plume_to_facility"
    /\ call.max_distance_km = Flt(5)
    /\ ret.kind = "dict"
    /\ DistKmLe(ret.v.dist2, Flt(5))
    /\ ~DistKmLt(ret.v.dist2, Flt(5))
    /\ HasDistanceMultiplier(ret.v, Frac(3, 10))

\* C27 short of the radius: a Match nearer than 5.0 km has one of the in-radius
\* multipliers, and a Match with the floor multiplier is not nearer than 5.0 km
C27_InRadiusTiersBelowFiveKm ==
    \A m \in Matches :
        /\ DistKmLt(m.dist2, Flt(5)) => \E d \in InRadiusTiers : HasDistanceMultiplier(m, d)
        /\ HasDistanceMultiplier(m, Frac(3, 10)) => ~DistKmLt(m.dist2, Flt(5))

---------------------------------------------------------------------------
(* Properties of the ratio computation, checked under SpecRatio *)

\* the last call returned a result of calculate_underreporting_ratio
RatioReturned == call.op = "calculate_underreporting_ratio" /\ ret.kind = "dict"

\* the last call returned a result of either ratio operation
ResultReturned ==
    call.op \in {"calculate_underreporting_ratio", "analyze_match"} /\ ret.kind = "dict"

\* single_event <= monthly <= weekly <= daily
Monotonic(ratios) ==
    /\ FLe(ratios["single_event"], ratios["monthly"])
    /\ FLe(ratios["monthly"], ratios["weekly"])
    /\ FLe(ratios["weekly"], ratios["daily"])

\* C4: calculate_underreporting_ratio returns four scenario ratios equal to
\* (mass_kg * f) / (reported_annual_tons * 1000) for f = 1 (single_event),
\* 12 (monthly), 52 (weekly) and 365 (daily), for every mass and every non-zero
\* reported baseline.
C4_ScenarioRatios ==
    (/\ call.op = "calculate_underreporting_ratio"
     /\ ~FEq(call.reported_annual_tons, Flt(0))) =>
        LET f == [single_event |-> 1, monthly |-> 12, weekly |-> 52, daily |-> 365]
            mass == call.satellite_detection_kg
            baseline == FMul(call.reported_annual_tons, Flt(1000))
        IN /\ ret.kind = "dict"
           /\ DOMAIN ret.v.all_ratios = {"single_event", "monthly", "weekly", "daily"}
           /\ \A s \in DOMAIN ret.v.all_ratios :
                 ret.v.all_ratios[s] = FDiv(FMul(mass, Flt(f[s])), baseline)

\* 900 kg against 3.6 t: the ratios 1/4, 3, 13 and 365/4
C4_RatiosOfNineHundredKg ==
    /\ RatioReturned
    /\ call.satellite_detection_kg = Flt(900)
    /\ call.reported_annual_tons = Frac(18, 5)
    /\ ret.v.all_ratios = [single_event |-> Frac(1, 4), monthly |-> Flt(3),
                           weekly |-> Flt(13), daily |-> Frac(365, 4)]

ZeroBaselineCall ==
    /\ call.op = "calculate_underreporting_ratio"
    /\ FEq(call.reported_annual_tons, Flt(0))
    /\ IsFinite(call.satellite_detection_kg)

\* the result is computed against a baseline of 1 and all its ratios are finite
FiniteAgainstOneUnit ==
    /\ ret.kind = "dict"
    /\ ret.v.reported_annual_kg = Flt(1)
    /\ \A s \in DOMAIN ret.v.all_ratios : IsFinite(ret.v.all_ratios[s])
    /\ IsFinite(ret.v.primary_ratio)
    /\ ret.v.all_ratios["single_event"] = call.satellite_detection_kg

\* C7, as stated: for a reported baseline of exactly zero and any finite
\* detection mass, calculate_underreporting_ratio does not raise and computes
\* every scenario ratio against a substituted baseline of 1 mass unit, so that
\* all four ratios and the primary ratio are finite (never inf, never NaN).
C7_FiniteForAnyFiniteMass ==
    ZeroBaselineCall => FiniteAgainstOneUnit

\* C7, amended: for a reported baseline of exactly zero and any finite detection
\* mass whose 365-fold is still a finite float, calculate_underreporting_ratio
\* does not raise and computes every scenario ratio against a substituted
\* baseline of 1 mass unit, so that all four ratios and the primary ratio are
\* finite.
C7_FiniteForMassInFloatRange ==
    (/\ ZeroBaselineCall
     /\ Abs(call.satellite_detection_kg.n) * 365
            <= FloatMax * call.satellite_detection_kg.d) =>
        FiniteAgainstOneUnit

\* 900 kg against a zero baseline: a daily ratio of 328500
C7_ZeroBaselineSubstituted ==
    /\ ZeroBaselineCall
    /\ call.satellite_detection_kg = Flt(900)
    /\ ret.kind = "dict"
    /\ ret.v.reported_annual_kg = Flt(1)
    /\ ret.v.all_ratios["daily"] = Flt(328500)

---------------------------------------------------------------------------
(* Properties of the mass estimate, checked under SpecRatio *)

\* the enhancement analyze_match reads from the match of the call
EnhancementOfCall == Get(call.match_data, "ch4_enhancement_ppm_m", Flt(0))

\* C12: in the integrated-column mode the mass estimate of a result of
\* analyze_match (satellite_mass_kg, the value of estimate_plume_mass_kg) is
\* >= 0 for every enhancement >= 0 and exactly 0 for every negative
\* enhancement: no result reports negative emissions.
C12_MassNeverNegative ==
    (call.op = "analyze_match" /\ ret.kind = "dict") =>
        /\ FGe(EnhancementOfCall, Flt(0)) => FGe(ret.v.satellite_mass_kg, Flt(0))
        /\ FLt(EnhancementOfCall, Flt(0)) => ret.v.satellite_mass_kg = Flt(0)

\* analyze_match on the match of a detection of -100 ppm.m: a mass of -72 kg
C12_NegativeMassReported ==
    /\ call.op = "analyze_match"
    /\ ret.kind = "dict"
    /\ EnhancementOfCall = Flt(0 - 100)
    /\ ret.v.satellite_mass_kg = Flt(0 - 72)
    /\ FLt(ret.v.primary_ratio, Flt(0))

\* the measured extent of the detection behind the match of the call: the
\* plume_area_km2 of the match, else that of the detection the match was made
\* from, else None
MeasuredExtentOfCall ==
    LET md == call.match_data
    IN IF "plume_area_km2" \in DOMAIN md THEN md.plume_area_km2
       ELSE IF "plume_lat" \in DOMAIN md
       THEN (CHOOSE p \in Plumes : /\ p.lat = md.plume_lat
                                   /\ p.lon = md.plume_lon
                                   /\ p.date = md.date).plume_area_km2
       ELSE PyNone

\* C20: the mass analyze_match uses is enhancement * 0.72 * plume_area_km2,
\* plume_area_km2 being the measured extent of the detection when it carries
\* one and 1.0 when it carries none, the field being absent or without a value.
C20_MassFromMeasuredExtent ==
    (call.op = "analyze_match" /\ EnhancementOfCall # PyNone) =>
        LET area == IF MeasuredExtentOfCall = PyNone THEN Flt(1)
                    ELSE MeasuredExtentOfCall
        IN /\ ret # RetRaise("TypeError")
           /\ ret.kind = "dict" =>
                 ret.v.satellite_mass_kg =
                     FMul(FMul(EnhancementOfCall, Frac(72, 100)), area)

\* analyze_match on a match whose plume_area_km2 is None: TypeError
C20_ExtentWithoutValueRaises ==
    /\ call.op = "analyze_match"
    /\ "plume_area_km2" \in DOMAIN call.match_data
    /\ call.match_data.plume_area_km2 = PyNone
    /\ EnhancementOfCall = Flt(1250)
    /\ ret = RetRaise("TypeError")

\* C24: analyze_match and analyze_matches_batch leave every field of the
\* analyzer unchanged: after any sequence of calls its state (self.results) is
\* the state right after construction.
C24_AnalyzerStateAsConstructed ==
    call.op = "analyze_match" => results = <<>>

\* after two calls of analyze_match the analyzer holds both results, the last
\* one being the dict just returned
C24_ResultsAccumulated ==
    /\ call.op = "analyze_match"
    /\ ret.kind = "dict"
    /\ Len(results) = 2
    /\ results[2] = ret.v

\* C26: with frequency_assumption 'aggressive', calculate_underreporting_ratio
\* reports as primary ratio the ratio that assumes daily occurrence of the
\* detected event (mass * 365 / reported kg), as its docstring states.
C26_AggressiveIsDaily ==
    (RatioReturned /\ call.frequency_assumption = "aggressive") =>
        ret.v.primary_ratio =
            FDiv(FMul(call.satellite_detection_kg, Flt(365)), ret.v.reported_annual_kg)

\* 900 kg against 3.6 t under 'aggressive': the primary ratio is the weekly 13,
\* the daily ratio is 91.25
C26_AggressiveReportsWeekly ==
    /\ RatioReturned
    /\ call.frequency_assumption = "aggressive"
    /\ call.satellite_detection_kg = Flt(900)
    /\ call.reported_annual_tons = Frac(18, 5)
    /\ ret.v.primary_ratio = Flt(13)
    /\ ret.v.all_ratios["daily"] = Frac(365, 4)

\* the values the assumption_map knows
Recognised == {"conservative", "moderate", "aggressive"}

\* C28: for a frequency_assumption outside {conservative, moderate, aggressive}
\* calculate_underreporting_ratio does not raise: it selects the monthly ratio
\* as primary (the same value as for 'moderate'), while the returned
\* frequency_assumption field still carries the unrecognised string passed in.
C28_UnrecognisedAssumptionIsMonthly ==
    (/\ call.op = "calculate_underreporting_ratio"
     /\ call.frequency_assumption \notin Recognised) =>
        LET moderate == calculate_underreporting_ratio(call.satellite_detection_kg,
                                                       call.reported_annual_tons,
                                                       "moderate")
        IN /\ ret.kind = "dict"
           /\ ret.v.primary_ratio = ret.v.all_ratios["monthly"]
           /\ ret.v.primary_ratio =
                  FDiv(FMul(call.satellite_detection_kg, Flt(12)),
                       ret.v.reported_annual_kg)
           /\ moderate.kind = "dict"
           /\ ret.v.primary_ratio = moderate.v.primary_ratio
           /\ ret.v.interpretation = moderate.v.interpretation
           /\ ret.v.frequency_assumption = call.frequency_assumption
           /\ moderate.v.frequency_assumption = "moderate"

\* 900 kg against 3.6 t under 'yearly': the primary ratio is the monthly 3, not
\* the single-event 0.25, and the result says 'yearly'
C28_YearlyOnDistinctRatios ==
    /\ RatioReturned
    /\ call.frequency_assumption = "yearly"
    /\ call.satellite_detection_kg = Flt(900)
    /\ call.reported_annual_tons = Frac(18, 5)
    /\ ret.v.primary_ratio = Flt(3)
    /\ ret.v.all_ratios["single_event"] = Frac(1, 4)
    /\ ret.v.frequency_assumption = "yearly"

---------------------------------------------------------------------------
(* Properties of the flagging, checked under SpecAnalysis *)

\* the band of primary ratio r carries the interpretation text
InBand(r, text) ==
    /\ FLt(r, Flt(1))
          <=> text = "Detection within reported range - appears accurate"
    /\ (FLe(Flt(1), r) /\ FLt(r, Frac(3, 2)))
          <=> text = "Marginal discrepancy - likely within measurement uncertainty"
    /\ (FLe(Frac(3, 2), r) /\ FLt(r, Flt(3)))
          <=> text = "Moderate discrepancy - possible underreporting"
    /\ (FLe(Flt(3), r) /\ FLt(r, Flt(10)))
          <=> text = "Severe discrepancy - significant underreporting indicated"
    /\ FLe(Flt(10), r)
          <=> text = "Critical discrepancy - major underreporting or data quality issue"

\* C8: the interpretation attached to a result is a function of its primary
\* ratio alone and every primary ratio falls in exactly one band: < 1.0 within
\* reported range; [1.0, 1.5) marginal; [1.5, 3.0) moderate; [3.0, 10.0) severe;
\* >= 10.0 critical (lower bounds inclusive, upper bounds exclusive).
C8_InterpretationBands ==
    (call.op = "analyze_matches_batch" /\ ret.kind = "frame") =>
        \A i \in 1..Len(ret.rows) :
            InBand(ret.rows[i].primary_ratio, ret.rows[i].interpretation)

\* an analysed entry whose primary ratio is NaN and is read as critical
C8_NaNRatioReadAsCritical ==
    /\ call.op = "analyze_matches_batch"
    /\ ret.kind = "frame"
    /\ \E i \in 1..Len(ret.rows) :
          /\ IsNaN(ret.rows[i].primary_ratio)
          /\ ret.rows[i].interpretation
                = "Critical discrepancy - major underreporting or data quality issue"

\* C8 on numbers: every entry whose primary ratio is not NaN carries the
\* interpretation of the band of that ratio.
C8_BandsOfNumericRatios ==
    (call.op = "analyze_matches_batch" /\ ret.kind = "frame") =>
        \A i \in 1..Len(ret.rows) :
            ~IsNaN(ret.rows[i].primary_ratio)
                => InBand(ret.rows[i].primary_ratio, ret.rows[i].interpretation)

\* the entry of analysis_df that a returned row is (its index label)
Entry(row) == call.analysis_df[row.index + 1]

C10_RiskLevels ==
    (call.op = "flag_potential_violators" /\ ret.kind = "frame") =>
        \A a \in 1..Len(ret.rows) :
            LET r == ret.rows[a].primary_ratio
            IN /\ "risk_level" \in DOMAIN ret.rows[a]
               /\ ret.rows[a].risk_level =
                     IF FLe(Flt(10), r) THEN "HIGH"
                     ELSE IF FLe(Flt(5), r) /\ FLt(r, Flt(10)) THEN "MEDIUM"
                     ELSE "LOW"

\* a returned batch with an entry of ratio exactly 10 (HIGH) and one of ratio
\* exactly 5 (MEDIUM)
C10_EntriesOnTheBounds ==
    /\ call.op = "flag_potential_violators"
    /\ ret.kind = "frame"
    /\ \E a, b \in 1..Len(ret.rows) :
          /\ ret.rows[a].primary_ratio = Flt(10)
          /\ ret.rows[a].risk_level = "HIGH"
          /\ ret.rows[b].primary_ratio = Flt(5)
          /\ ret.rows[b].risk_level = "MEDIUM"

\* the interpretations of the two upper bands
Severe == "Severe discrepancy - significant underreporting indicated"

Critical == "Critical discrepancy - major underreporting or data quality issue"

\* entry i of analysis_df is among the rows flag_potential_violators returned
IsReturned(i) == \E a \in 1..Len(ret.rows) : ret.rows[a].index = i - 1

\* flagging and risk level of the entries i at which Covered(i) holds follow
\* their interpretation
AgreeOn(Covered(_)) ==
    /\ \A i \in 1..Len(call.analysis_df) :
          Covered(i) =>
              (IsReturned(i) <=> call.analysis_df[i].interpretation \in {Severe, Critical})
    /\ \A a \in 1..Len(ret.rows) :
          Covered(ret.rows[a].index + 1) =>
              (ret.rows[a].risk_level = "HIGH" <=> ret.rows[a].interpretation = Critical)

EveryEntry(i) == TRUE

NumericEntry(i) == ~IsNaN(call.analysis_df[i].primary_ratio)

\* C29: interpretation and flagging agree on every analysed entry: with the
\* default threshold 3.0 an entry produced by analyze_match is flagged by
\* flag_potential_violators if and only if its interpretation is 'Severe' or
\* 'Critical', and a flagged entry has risk level HIGH if and only if its
\* interpretation is 'Critical'.
C29_FlaggingFollowsInterpretation ==
    (/\ call.op = "flag_potential_violators"
     /\ call.ratio_threshold = Flt(3)
     /\ ret.kind = "frame") => AgreeOn(EveryEntry)

\* an entry read as 'Critical' that the default threshold does not flag: its
\* primary ratio is NaN
C29_CriticalEntryNotFlagged ==
    /\ call.op = "flag_potential_violators"
    /\ call.ratio_threshold = Flt(3)
    /\ ret.kind = "frame"
    /\ \E i \in 1..Len(call.analysis_df) :
          /\ call.analysis_df[i].interpretation = Critical
          /\ IsNaN(call.analysis_df[i].primary_ratio)
          /\ ~IsReturned(i)

\* C29 on numbers: on the entries whose primary ratio is not NaN, flagging and
\* risk level follow the interpretation
C29_AgreementOnNumericRatios ==
    (/\ call.op = "flag_potential_violators"
     /\ call.ratio_threshold = Flt(3)
     /\ ret.kind = "frame") => AgreeOn(NumericEntry)

---------------------------------------------------------------------------
(* Properties of the missing signal and of the summaries, checked under
   SpecAnalysis and SpecPortfolio *)

\* the match carries no ch4_enhancement_ppm_m value: None, or the NaN pandas
\* stores for a None in a column of numbers
MissingSignal(match) ==
    LET e == match.ch4_enhancement_ppm_m
    IN IF e = PyNone THEN TRUE ELSE IsNaN(e)

\* the positions of the entries of analysis_df that carry an estimate
WithEstimate(analysis_df) ==
    {i \in 1..Len(analysis_df) : ~IsNaN(analysis_df[i].satellite_mass_kg)}

\* C14: a matched detection without ch4_enhancement_ppm_m value goes through
\* analyze_matches_batch as 'no estimate': the batch does not raise, the entry
\* of the detection has neither a mass of 0 nor a ratio of 0, and the maximum,
\* the minimum and the counts of generate_summary_statistics are those of the
\* entries that carry an estimate.
C14_MissingSignalIsNoEstimate ==
    /\ call.op = "analyze_matches_batch" =>
          \A i \in 1..Len(call.matches_df) :
              MissingSignal(call.matches_df[i]) =>
                  /\ ret.kind = "frame"
                  /\ Len(ret.rows) = Len(call.matches_df) =>
                        /\ ret.rows[i].satellite_mass_kg # Flt(0)
                        /\ ret.rows[i].primary_ratio # Flt(0)
    /\ (call.op = "generate_summary_statistics" /\ ret.kind = "dict") =>
          LET df == call.analysis_df
              est == WithEstimate(df)
          IN /\ ret.v.matches_above_3x =
                    Cardinality({i \in est : FGe(df[i].primary_ratio, Flt(3))})
             /\ est # {} =>
                   /\ \E i \in est :
                         /\ ret.v.max_ratio = df[i].primary_ratio
                         /\ \A j \in est : FLe(df[j].primary_ratio, df[i].primary_ratio)
                   /\ \E i \in est :
                         /\ ret.v.min_ratio = df[i].primary_ratio
                         /\ \A j \in est : FLe(df[i].primary_ratio, df[j].primary_ratio)

\* analyze_matches_batch on matches whose enhancement values are all None:
\* None * 0.72 raises TypeError
C14_BatchOfMissingSignalsRaises ==
    /\ call.op = "analyze_matches_batch"
    /\ call.matches_df # <<>>
    /\ \A i \in 1..Len(call.matches_df) :
          call.matches_df[i].ch4_enhancement_ppm_m = PyNone
    /\ ret = RetRaise("TypeError")

\* C16: on an empty batch of results generate_summary_statistics and
\* generate_portfolio_summary do not raise and return a summary whose count of
\* entries is 0.
C16_EmptyBatchSummaries ==
    /\ (call.op = "generate_summary_statistics" /\ call.analysis_df = <<>>) =>
          /\ ret.kind = "dict"
          /\ ret.v.total_matches = 0
    /\ (call.op = "generate_portfolio_summary" /\ call.analysis_df = <<>>) =>
          /\ ret.kind = "dict"
          /\ "total_facilities" \in DOMAIN ret.v
          /\ ret.v.total_facilities = 0

\* generate_summary_statistics on the DataFrame analyze_matches_batch returns
\* for an empty batch raises KeyError
C16_SummaryOfEmptyBatchRaises ==
    /\ call.op = "generate_summary_statistics"
    /\ call.analysis_df = <<>>
    /\ ret = RetRaise("KeyError")

\* the number of entries of the portfolio of the call that are at or above t
EntriesAtLeast(t) ==
    Cardinality({i \in 1..Len(call.analysis_df) :
                    FGe(call.analysis_df[i].primary_ratio, Flt(t))})

\* C17: for every non-empty batch the portfolio risk level is HIGH when
\* strictly more than 30 % of the entries have a primary ratio >= 3, otherwise
\* MODERATE when strictly more than 30 % have a primary ratio >= 2, otherwise
\* LOW; exactly 30 % of entries >= 3 is not HIGH.
C17_PortfolioRiskLevel ==
    (call.op = "generate_portfolio_summary" /\ call.analysis_df # <<>>) =>
        /\ ret.kind = "dict"
        /\ ret.v.portfolio_risk_level =
              IF 10 * EntriesAtLeast(3) > 3 * Len(call.analysis_df) THEN "HIGH"
              ELSE IF 10 * EntriesAtLeast(2) > 3 * Len(call.analysis_df) THEN "MODERATE"
              ELSE "LOW"

\* a portfolio of ten entries of which exactly three are >= 3 and four are
\* >= 2: MODERATE
C17_ExactlyThirtyPercent ==
    /\ call.op = "generate_portfolio_summary"
    /\ Len(call.analysis_df) = 10
    /\ EntriesAtLeast(3) = 3
    /\ EntriesAtLeast(2) = 4
    /\ ret.v.portfolio_risk_level = "MODERATE"

---------------------------------------------------------------------------
(* Properties of PlumeDetector, checked under SpecDetector *)

\* the detection records of the last call: the record detect_plume returned, or
\* the rows of the DataFrame detect_all_plants returned
Detections ==
    IF call.op = "detect_plume" /\ ret.kind = "dict" THEN {ret.v}
    ELSE IF call.op = "detect_all_plants"
         THEN {ret.rows[i] : i \in 1..Len(ret.rows)}
         ELSE {}

\* the three emission estimates of a detection record
Estimates(d) ==
    {d.estimated_nox_kg_hr, d.estimated_co2_kg_hr, d.estimated_co2_tons_day}

\* both zones of the plant gave a value
HasBothValues(stats) ==
    /\ "error" \notin DOMAIN stats
    /\ stats.plume # PyNone
    /\ stats.background # PyNone

\* C11: in column-enhancement mode the NOx rate, the CO2 rate and the daily CO2
\* total of every detection are >= 0, whatever the enhancement and the fuel
\* type, and all three are exactly 0 when the enhancement is negative.
C11_EstimatesNeverNegative ==
    \A d \in Detections :
        /\ \A e \in Estimates(d) : FGe(e, Flt(0))
        /\ FLt(d.enhancement_mol_m2, Flt(0)) => Estimates(d) = {Flt(0)}

\* detect_plume on a plant whose plume zone is below its background, and on a
\* plant with a positive enhancement in the same batch
C11_PlumeBelowBackground ==
    /\ call.op = "detect_all_plants"
    /\ \E d, e \in Detections :
          /\ FLt(d.enhancement_mol_m2, Flt(0))
          /\ d.estimated_co2_tons_day = Flt(0)
          /\ FLt(Flt(0), e.estimated_nox_kg_hr)

\* the plant names of the rows of plants_df that have both values, in order
RECURSIVE NamesWithBothValues(_, _)
NamesWithBothValues(plants_df, k) ==
    IF k = 0 THEN <<>>
    ELSE NamesWithBothValues(plants_df, k - 1)
             \o (IF HasBothValues(plants_df[k].stats)
                 THEN <<plants_df[k].name>> ELSE <<>>)

\* C13: detect_plume returns None whenever the plume value or the background
\* value is missing; when both are present and equal it returns a record (not
\* None) whose estimated emissions are zero; detect_all_plants leaves out the
\* plants without an estimate and goes on with the plants after them.
C13_MissingValueIsNoEstimate ==
    /\ call.op = "detect_plume" =>
          /\ ~HasBothValues(call.stats) => ret = RetNone
          /\ (HasBothValues(call.stats) /\ call.stats.plume = call.stats.background)
                => /\ ret.kind = "dict"
                   /\ Estimates(ret.v) = {Flt(0)}
    /\ call.op = "detect_all_plants" =>
          /\ ret.kind = "frame"
          /\ [i \in 1..Len(ret.rows) |-> ret.rows[i].plant_name]
                = NamesWithBothValues(call.plants_df, Len(call.plants_df))

\* a batch whose first plant has a missing value and whose second plant has
\* equal plume and background values: one row, of zero emissions
C13_MissingThenEqual ==
    /\ call.op = "detect_all_plants"
    /\ Len(call.plants_df) = 2
    /\ ~HasBothValues(call.plants_df[1].stats)
    /\ Len(ret.rows) = 1
    /\ ret.rows[1].plant_name = call.plants_df[2].name
    /\ ret.rows[1].plume_no2_mol_m2 = ret.rows[1].background_no2_mol_m2
    /\ Estimates(ret.rows[1]) = {Flt(0)}

\* C21: for every enhancement >= 0 the CO2 rate is the NOx rate times the one
\* ratio of the fuel type (217 for 'coal', 350 for 'gas'), and the daily figure
\* is the hourly one times 24: co2_tons_day * 1000 = co2_kg_hr * 24.
C21_RatioByFuelAndDayFromHour ==
    \A d \in Detections :
        FGe(d.enhancement_mol_m2, Flt(0)) =>
            /\ d.fuel_type = FuelCoal =>
                  d.estimated_co2_kg_hr = FMul(d.estimated_nox_kg_hr, Flt(217))
            /\ d.fuel_type = FuelGas =>
                  d.estimated_co2_kg_hr = FMul(d.estimated_nox_kg_hr, Flt(350))
            /\ FMul(d.estimated_co2_tons_day, Flt(1000))
                  = FMul(d.estimated_co2_kg_hr, Flt(24))

\* a batch with a coal plant and a gas plant, both of positive NOx rate
C21_CoalAndGasInOneBatch ==
    /\ call.op = "detect_all_plants"
    /\ \E d, e \in Detections :
          /\ d.fuel_type = FuelCoal
          /\ e.fuel_type = FuelGas
          /\ FLt(Flt(0), d.estimated_nox_kg_hr)
          /\ FLt(Flt(0), e.estimated_nox_kg_hr)
          /\ FLt(Flt(0), e.estimated_co2_tons_day)

\* C30: in every record of detect_plume detection_confidence is HIGH for an
\* enhancement_percent >= 30, MEDIUM in [15, 30), LOW in [10, 15) and NONE
\* below 10; a background <= 0 gives enhancement_percent 0 and NONE; and a
\* confidence other than NONE comes with a positive enhancement and a strictly
\* positive estimated_co2_kg_hr.
C30_ConfidenceTiers ==
    \A d \in Detections :
        LET pct == d.enhancement_percent
            tier == d.detection_confidence
        IN /\ tier = "HIGH" <=> FGe(pct, Flt(30))
           /\ tier = "MEDIUM" <=> (FGe(pct, Flt(15)) /\ FLt(pct, Flt(30)))
           /\ tier = "LOW" <=> (FGe(pct, Flt(10)) /\ FLt(pct, Flt(15)))
           /\ tier = "NONE" <=> FLt(pct, Flt(10))
           /\ FLe(d.background_no2_mol_m2, Flt(0)) =>
                 (pct = Flt(0) /\ tier = "NONE")
           /\ tier # "NONE" =>
                 /\ FLt(Flt(0), d.enhancement_mol_m2)
                 /\ FLt(Flt(0), d.estimated_co2_kg_hr)

\* a batch with a plant at exactly 30 % (HIGH) and one at exactly 10 % (LOW)
C30_OnTheThresholds ==
    /\ call.op = "detect_all_plants"
    /\ \E d, e \in Detections :
          /\ d.enhancement_percent = Flt(30)
          /\ d.detection_confidence = "HIGH"
          /\ e.enhancement_percent = Flt(10)
          /\ e.detection_confidence = "LOW"

===========================================================================
